---------------------------- MODULE Spec2Model ----------------------------
(***************************************************************************)
(* A model of vispy/color/_color.py: the ColorArray container with its     *)
(* typed views, the string / hex parsers, the colormap interpolation       *)
(* functions and the GLSL generation.                                      *)
(*                                                                         *)
(* Numbers.  A channel value is an exact rational <<n, d>> (d > 0, lowest  *)
(* terms).  The arithmetic of the conversions is carried out exactly;      *)
(* float32 rounding is not modelled.                                       *)
(* Arrays.  An N x k numpy array is a sequence of N rows, each a sequence  *)
(* of k rationals.  Strings are sequences of one-character strings.        *)
(* Results.  A function that can raise returns [err |-> e, val |-> v]:     *)
(* e = "ok" and the value, or the kind of exception raised.                *)
(***************************************************************************)
EXTENDS Integers, Sequences, FiniteSets, TLC

VARIABLES
    rgba,     \* Spec, SpecConstruct: ColorArray._rgba of the container under operation
    last,     \* Spec, SpecConstruct: the last operation applied, its input and outcome
    mem,      \* SpecIndex: the storage allocated, address -> array of RGBA rows
    orig,     \* SpecIndex: _rgba of the original container (base address and rows)
    sub,      \* SpecIndex: _rgba of the container got by indexing
    ilast,    \* SpecIndex: the last operation, its target and outcome
    str,      \* SpecString: the string handed to the parsers
    sres,     \* SpecString: the last parser applied and what it returned
    cmap,     \* SpecMap: the colormap built (kind, controls, colors, glsl_map)
    mres      \* SpecMap: the last query and what it returned

vars == <<rgba, last, mem, orig, sub, ilast, str, sres, cmap, mres>>

-----------------------------------------------------------------------------
(* Bounds of the model *)

\* The largest number of records in a container or in an input array.
MaxLen == 2

-----------------------------------------------------------------------------
(* Exact rational arithmetic *)

Abs(x) == IF x < 0 THEN -x ELSE x

RECURSIVE GCD(_, _)
GCD(a, b) == IF b = 0 THEN a ELSE GCD(b, a % b)

\* The rational n/d in lowest terms with a positive denominator (d # 0).
Rat(n, d) ==
    LET g == GCD(Abs(n), Abs(d))
        s == IF d < 0 THEN -1 ELSE 1
    IN  <<(s * n) \div g, (s * d) \div g>>

Q(n) == <<n, 1>>
Zero == Q(0)
One == Q(1)

RAdd(a, b) == Rat(a[1] * b[2] + b[1] * a[2], a[2] * b[2])
RSub(a, b) == Rat(a[1] * b[2] - b[1] * a[2], a[2] * b[2])
RMul(a, b) == Rat(a[1] * b[1], a[2] * b[2])
RDiv(a, b) == Rat(a[1] * b[2], a[2] * b[1])
RLt(a, b) == IF a[2] = b[2] THEN a[1] < b[1] ELSE a[1] * b[2] < b[1] * a[2]
RLe(a, b) == IF a[2] = b[2] THEN a[1] <= b[1] ELSE a[1] * b[2] <= b[1] * a[2]
RAbs(a) == <<Abs(a[1]), a[2]>>
\* Python's a % m for a positive integer m: the result lies in [0, m).
RMod(a, m) == RSub(a, Q(m * (RDiv(a, Q(m))[1] \div RDiv(a, Q(m))[2])))
RMin(a, b) == IF RLe(a, b) THEN a ELSE b
RMax(a, b) == IF RLe(a, b) THEN b ELSE a
\* np.clip(x, 0, 1) on one element.
Clip01(a) == RMax(Zero, RMin(One, a))
InUnit(a) == RLe(Zero, a) /\ RLe(a, One)

\* Sequence helpers.
Take(s, k) == SubSeq(s, 1, k)
Drop(s, k) == SubSeq(s, k + 1, Len(s))

\* F(v), with v evaluated once and bound to the parameter of F.
With(v, F(_)) == CHOOSE y \in {F(x) : x \in {v}} : TRUE

Ok(v) == [err |-> "ok", val |-> v]
Raise(e) == [err |-> e, val |-> <<>>]


-----------------------------------------------------------------------------
(* Strings and the name lookup *)

\* The hexadecimal digits int(s, 16) accepts, with their values.
HexDigits ==
    [c \in {"0", "1", "2", "3", "4", "5", "6", "7", "8", "9",
            "a", "b", "c", "d", "e", "f", "A", "B", "C", "D", "E", "F"} |->
        CASE c = "0" -> 0 [] c = "1" -> 1 [] c = "2" -> 2 [] c = "3" -> 3
          [] c = "4" -> 4 [] c = "5" -> 5 [] c = "6" -> 6 [] c = "7" -> 7
          [] c = "8" -> 8 [] c = "9" -> 9
          [] c \in {"a", "A"} -> 10 [] c \in {"b", "B"} -> 11
          [] c \in {"c", "C"} -> 12 [] c \in {"d", "D"} -> 13
          [] c \in {"e", "E"} -> 14 [] c \in {"f", "F"} -> 15]

IsHex(s) == \A i \in 1..Len(s) : s[i] \in DOMAIN HexDigits

\* int(s, 16) / 255. for a string s of two hexadecimal digits.
HexPair(s) == Rat(16 * HexDigits[s[1]] + HexDigits[s[2]], 255)

\* str.lower() on the letters the model's strings use.
LowerChar(c) ==
    CASE c = "R" -> "r" [] c = "E" -> "e" [] c = "D" -> "d" [] c = "B" -> "b"
      [] c = "L" -> "l" [] c = "U" -> "u" [] c = "F" -> "f" [] c = "A" -> "a"
      [] c = "C" -> "c" [] c = "K" -> "k"
      [] OTHER -> c
Lower(s) == [i \in 1..Len(s) |-> LowerChar(s[i])]

\* _color_dict: a dict from lower-case colour names to '#rrggbb' strings.
_color_dict ==
    (<<"r", "e", "d">> :> <<"#", "f", "f", "0", "0", "0", "0">>) @@
    (<<"r">> :> <<"#", "f", "f", "0", "0", "0", "0">>) @@
    (<<"b", "l", "u", "e">> :> <<"#", "0", "0", "0", "0", "f", "f">>) @@
    (<<"b", "l", "a", "c", "k">> :> <<"#", "0", "0", "0", "0", "0", "0">>)

\* ''.join(c + c for c in color)
RECURSIVE DupChars(_)
DupChars(s) == IF s = <<>> THEN <<>> ELSE <<s[1], s[1]>> \o DupChars(Tail(s))

\* [int(color[i:i+2], 16) / 255. for i in range(0, lc, 2)], lc even.
RECURSIVE HexPairs(_)
HexPairs(s) == IF s = <<>> THEN <<>> ELSE <<HexPair(Take(s, 2))>> \o HexPairs(Drop(s, 2))

\* The part of _string_to_rgb after the name lookup (lines 26-35), on a
\* string that starts with one character to drop.
HexBody(color) ==
    With(IF Len(Tail(color)) \in {3, 4} THEN DupChars(Tail(color)) ELSE Tail(color),
         LAMBDA hex :
            IF Len(hex) \notin {6, 8} THEN Raise("MalformedHex")
            ELSE IF ~IsHex(hex) THEN Raise("InvalidLiteral")
            ELSE Ok(HexPairs(hex)))

\* color = _color_dict[color]: the lookup by the string as given.
DictLookup(color) == IF color \in DOMAIN _color_dict THEN Ok(_color_dict[color]) ELSE Raise("KeyError")

\* _string_to_rgb(color): a 1-D array of 3 or 4 channels.
_string_to_rgb(color) ==
    IF color # <<>> /\ color[1] = "#" THEN HexBody(color)
    ELSE IF Lower(color) \notin DOMAIN _color_dict THEN Raise("UnknownColorName")
    ELSE With(DictLookup(color), LAMBDA hit : IF hit.err # "ok" THEN hit ELSE HexBody(hit.val))


-----------------------------------------------------------------------------
(* Arrays of colours *)

\* A user value: a string, or an array-like of rows (np.atleast_2d applied).
StrVal(s) == [s |-> s, tag |-> "str"]
ArrVal(rows) == [tag |-> "arr", rows |-> rows]

NCols(arr) == Len(arr[1])
AnyOutside(arr) == \E i \in 1..Len(arr) : \E j \in 1..Len(arr[i]) : ~InUnit(arr[i][j])
ClipRows(arr) == [i \in 1..Len(arr) |-> [j \in 1..Len(arr[i]) |-> Clip01(arr[i][j])]]

\* Lines 40-53 of _user_to_rgba: the value as a 2-D float array.
AsArray(color) ==
    IF color.tag = "str"
    THEN With(_string_to_rgb(color.s), LAMBDA r : IF r.err = "ok" THEN Ok(<<r.val>>) ELSE r)
    ELSE Ok(color.rows)

\* _user_to_rgba(color, expand, clip)
_user_to_rgba(color, expand, clip) ==
    With(AsArray(color), LAMBDA parsed :
        IF parsed.err # "ok" THEN parsed
        ELSE IF NCols(parsed.val) \notin {3, 4} THEN Raise("ShapeMismatch")
        ELSE With(IF expand /\ NCols(parsed.val) = 3
                  THEN [i \in 1..Len(parsed.val) |-> Append(parsed.val[i], One)]
                  ELSE parsed.val,
                  LAMBDA full :
                     IF AnyOutside(full)
                     THEN IF clip THEN Ok(ClipRows(full)) ELSE Raise("OutOfRange")
                     ELSE Ok(full)))

\* _check_color_dim(val): the number of columns, 3 or 4.
_check_color_dim(val) ==
    IF NCols(val) \notin {3, 4} THEN Raise("RuntimeError") ELSE Ok(NCols(val))

\* _array_clip_val(val) on a 1-D array (a scalar is an array of length 1).
_array_clip_val(val) == [i \in 1..Len(val) |-> Clip01(val[i])]

\* numpy's broadcast of M source rows onto N target rows: M = N or M = 1.
Broadcasts(m, n) == m = n \/ m = 1
BRow(src, i) == IF Len(src) = 1 THEN src[1] ELSE src[i]

-----------------------------------------------------------------------------
(* RGB <-> HSV *)

\* np.argmax(rgb): the first index holding the maximum.
ArgMax3(rgb) ==
    IF RLe(rgb[2], rgb[1]) /\ RLe(rgb[3], rgb[1]) THEN 1
    ELSE IF RLe(rgb[3], rgb[2]) THEN 2 ELSE 3

\* One iteration of the loop of _rgb_to_hsv (lines 117-133).
RgbToHsvRow(rgb) ==
    With(ArgMax3(rgb), LAMBDA idx :
    With(RSub(rgb[idx], RMin(rgb[1], RMin(rgb[2], rgb[3]))), LAMBDA c :
        IF c = Zero THEN <<Zero, Zero, rgb[idx]>>
        ELSE <<RMul(CASE idx = 1 -> RMod(RDiv(RSub(rgb[2], rgb[3]), c), 6)
                      [] idx = 2 -> RAdd(RDiv(RSub(rgb[3], rgb[1]), c), Q(2))
                      [] OTHER -> RAdd(RDiv(RSub(rgb[1], rgb[2]), c), Q(4)),
                    Q(60)),
               RDiv(c, rgb[idx]),
               rgb[idx]>>))

\* _rgb_to_hsv(rgbs): with four columns the concatenate of line 137 joins a
\* 2-D and a 1-D array, which numpy refuses.
_rgb_to_hsv(rgbs) ==
    IF _check_color_dim(rgbs).err # "ok" THEN _check_color_dim(rgbs)
    ELSE IF _check_color_dim(rgbs).val = 4 THEN Raise("ConcatenateError")
    ELSE Ok([i \in 1..Len(rgbs) |-> RgbToHsvRow(Take(rgbs[i], 3))])

\* One iteration of the loop of _hsv_to_rgb (lines 148-164).
HsvToRgbRow(hsv) ==
    With(RMul(hsv[2], hsv[3]), LAMBDA c :
    With(RDiv(hsv[1], Q(60)), LAMBDA hp :
    With(RMul(c, RSub(One, RAbs(RSub(RMod(hp, 2), One)))), LAMBDA x :
    With(RSub(hsv[3], c), LAMBDA m :
    With(IF RLe(Zero, hp) /\ RLt(hp, Q(1)) THEN <<c, x, Zero>>
         ELSE IF RLt(hp, Q(2)) THEN <<x, c, Zero>>
         ELSE IF RLt(hp, Q(3)) THEN <<Zero, c, x>>
         ELSE IF RLt(hp, Q(4)) THEN <<Zero, x, c>>
         ELSE IF RLt(hp, Q(5)) THEN <<x, Zero, c>>
         ELSE <<c, Zero, x>>,
         LAMBDA rgb : <<RAdd(rgb[1], m), RAdd(rgb[2], m), RAdd(rgb[3], m)>>)))))

\* _hsv_to_rgb(hsvs)
_hsv_to_rgb(hsvs) ==
    IF _check_color_dim(hsvs).err # "ok" THEN _check_color_dim(hsvs)
    ELSE IF _check_color_dim(hsvs).val = 4 THEN Raise("ConcatenateError")
    ELSE Ok([i \in 1..Len(hsvs) |-> HsvToRgbRow(hsvs[i])])


-----------------------------------------------------------------------------
(* Lab -> RGB *)

Half == Rat(1, 2)

\* Lines 230-242 of _lab_to_rgb on one Lab row: the RGB values before the
\* clip.  The powers x ** 3 and x ** (1 / 2.4) are not rational, so the
\* function is tabulated on three Lab rows, each value rounded to the
\* nearest half:  (0, 0, 0) -> (0, 0, 0);  (50, 0, 0) -> (.466, .466, .466);
\* (100, 100, 100) -> (1.768, .575, .194), which is out of gamut.
LabRows == {<<Q(0), Q(0), Q(0)>>, <<Q(50), Q(0), Q(0)>>, <<Q(100), Q(100), Q(100)>>}
LabToRgbRow(lab) ==
    CASE Take(lab, 3) = <<Q(0), Q(0), Q(0)>> -> <<Zero, Zero, Zero>>
      [] Take(lab, 3) = <<Q(50), Q(0), Q(0)>> -> <<Half, Half, Half>>
      [] OTHER -> <<Q(2), Half, Zero>>

\* _lab_to_rgb(labs): the rows converted, then np.clip(rgbs, 0., 1.).
_lab_to_rgb(labs) ==
    IF _check_color_dim(labs).err # "ok" THEN _check_color_dim(labs)
    ELSE IF _check_color_dim(labs).val = 4 THEN Raise("ConcatenateError")
    ELSE Ok(ClipRows([i \in 1..Len(labs) |-> LabToRgbRow(labs[i])]))

-----------------------------------------------------------------------------
(* Hex -> RGBA *)

\* The width of the string dtype '|U9' of _hex_to_rgba.
HexFieldWidth == 9

\* One iteration of the loop of _hex_to_rgba (lines 93-98): a row of four
\* channels, the alpha 1 unless the string holds a fourth pair.
HexToRgbaRow(h) ==
    With(HexPairs(Drop(h, IF h[1] = "#" THEN 1 ELSE 0)),
         LAMBDA pairs : IF Len(pairs) = 4 THEN pairs ELSE Append(pairs, One))

HexRowError(h) ==
    IF h = <<>> THEN "IndexError"
    ELSE LET off == IF h[1] = "#" THEN 1 ELSE 0
         IN  IF Len(h) \notin {6 + off, 8 + off} THEN "AssertionError"
             ELSE IF ~IsHex(Drop(h, off)) THEN "InvalidLiteral"
             ELSE "ok"

\* _hex_to_rgba(hexs): hexs a sequence of strings, each cut to the dtype's width.
_hex_to_rgba(hexs) ==
    With([i \in 1..Len(hexs) |->
             IF Len(hexs[i]) > HexFieldWidth THEN Take(hexs[i], HexFieldWidth) ELSE hexs[i]],
         LAMBDA cut :
    With({i \in 1..Len(cut) : HexRowError(cut[i]) # "ok"}, LAMBDA bad :
        IF bad # {}
        THEN Raise(HexRowError(cut[CHOOSE i \in bad : \A j \in bad : i <= j]))
        ELSE Ok([i \in 1..Len(cut) |-> HexToRgbaRow(cut[i])])))

-----------------------------------------------------------------------------
(* ColorArray: construction and the view setters.  Each takes the buffer    *)
(* self._rgba and returns [err, buf]: the outcome and the buffer afterwards. *)

\* self._rgba = None
None == <<>>

Res(e, b) == [err |-> e, buf |-> b]

\* self._rgba[:, :rgba.shape[1]] = rgba
WriteCols(buf, arr) ==
    [i \in 1..Len(buf) |->
        [j \in 1..4 |-> IF j <= NCols(arr) THEN BRow(arr, i)[j] ELSE buf[i][j]]]

\* A setter that assigns the columns before it validates the range.
rgba_setter_early(buf, val) ==
    With(AsArray(val), LAMBDA raw :
        IF raw.err # "ok" THEN Res(raw.err, buf)
        ELSE IF NCols(raw.val) \notin {3, 4} THEN Res("ShapeMismatch", buf)
        ELSE IF buf = None
             THEN IF AnyOutside(raw.val) THEN Res("OutOfRange", buf) ELSE Res("ok", raw.val)
        ELSE IF ~Broadcasts(Len(raw.val), Len(buf)) THEN Res("BroadcastError", buf)
        ELSE Res(IF AnyOutside(raw.val) THEN "OutOfRange" ELSE "ok", WriteCols(buf, raw.val)))

\* ColorArray.rgba (setter)
rgba_setter(buf, val) ==
    With(_user_to_rgba(val, FALSE, FALSE), LAMBDA r :
        IF r.err # "ok" THEN Res(r.err, buf)
        ELSE IF buf = None THEN Res("ok", r.val)
        ELSE IF ~Broadcasts(Len(r.val), Len(buf)) THEN Res("BroadcastError", buf)
        ELSE Res("ok", WriteCols(buf, r.val)))

\* ColorArray.rgb (setter)
rgb_setter(buf, val) == rgba_setter(buf, val)

\* np.atleast_1d(val).astype(np.float32) / 255 on rows of integers.
Over255(val) == [i \in 1..Len(val) |-> [j \in 1..Len(val[i]) |-> Rat(val[i][j], 255)]]

\* ColorArray.RGBA (setter) and ColorArray.RGB (setter)
RGBA_setter(buf, val) == rgba_setter(buf, ArrVal(Over255(val)))
RGB_setter(buf, val) == rgba_setter(buf, ArrVal(Over255(val)))

\* ColorArray.alpha (setter): val a 1-D array or a scalar (length 1).
alpha_setter(buf, val) ==
    IF ~Broadcasts(Len(val), Len(buf)) THEN Res("BroadcastError", buf)
    ELSE Res("ok", [i \in 1..Len(buf) |-> [buf[i] EXCEPT ![4] = BRow(_array_clip_val(val), i)]])

\* ColorArray.hex (setter)
hex_setter(buf, val) ==
    With(_hex_to_rgba(val), LAMBDA r :
        IF r.err # "ok" THEN Res(r.err, buf) ELSE rgba_setter(buf, ArrVal(r.val)))

\* ColorArray.hsv (setter)
hsv_setter(buf, val) ==
    With(_hsv_to_rgb(val), LAMBDA r :
        IF r.err # "ok" THEN Res(r.err, buf) ELSE rgba_setter(buf, ArrVal(r.val)))

\* ColorArray.lab (setter)
lab_setter(buf, val) ==
    With(_lab_to_rgb(val), LAMBDA r :
        IF r.err # "ok" THEN Res(r.err, buf) ELSE rgba_setter(buf, ArrVal(r.val)))

\* ColorArray._hsv: _rgb_to_hsv(self._rgba[:, :3])
_hsv(buf) == _rgb_to_hsv([i \in 1..Len(buf) |-> Take(buf[i], 3)]).val

\* ColorArray.value (getter)
value_getter(buf) == With(_hsv(buf), LAMBDA hsv : [i \in 1..Len(buf) |-> hsv[i][3]])

\* ColorArray.value (setter)
value_setter(buf, val) ==
    IF ~Broadcasts(Len(val), Len(buf)) THEN Res("BroadcastError", buf)
    ELSE With(<<_hsv(buf), _array_clip_val(val)>>, LAMBDA p :
            rgba_setter(buf, ArrVal(_hsv_to_rgb(
                [i \in 1..Len(buf) |-> [p[1][i] EXCEPT ![3] = BRow(p[2], i)]]).val)))

\* ColorArray.lighter / darker, on the container `color` they work on:
\* color.value += dv and color.value -= dv.
lighter(buf, dv) ==
    With(value_getter(buf), LAMBDA v : value_setter(buf, [i \in 1..Len(buf) |-> RAdd(v[i], dv)]))
darker(buf, dv) ==
    With(value_getter(buf), LAMBDA v : value_setter(buf, [i \in 1..Len(buf) |-> RSub(v[i], dv)]))

\* ColorArray.__setitem__(item, value): item 0 is the slice [:], item i >= 1
\* the row i; value one row (or a buffer of rows for the slice).
__setitem__(buf, item, value) ==
    IF item > Len(buf) THEN Res("IndexError", buf)
    ELSE IF NCols(value) \notin {1, 4} THEN Res("BroadcastError", buf)
    ELSE IF item = 0
         THEN IF ~Broadcasts(Len(value), Len(buf)) THEN Res("BroadcastError", buf)
              ELSE Res("ok", [i \in 1..Len(buf) |-> [j \in 1..4 |->
                        IF NCols(value) = 1 THEN BRow(value, i)[1] ELSE BRow(value, i)[j]]])
         ELSE IF Len(value) # 1 THEN Res("BroadcastError", buf)
              ELSE Res("ok", [buf EXCEPT ![item] = [j \in 1..4 |->
                        IF NCols(value) = 1 THEN value[1][1] ELSE value[1][j]]])

\* ColorArray.__init__(color, alpha, clip); alpha = None is the empty sequence.
ColorArray_init(color, alpha, clip) ==
    With(_user_to_rgba(color, TRUE, clip), LAMBDA r :
        IF r.err # "ok" THEN Res(r.err, None)
        ELSE rgba_setter(None, ArrVal(
                IF alpha = None THEN r.val
                ELSE [i \in 1..Len(r.val) |-> [r.val[i] EXCEPT ![4] = alpha[1]]])))

\* Color.__init__(color, alpha, clip): one row only.
Color_init(color, alpha, clip) ==
    With(_user_to_rgba(color, TRUE, clip), LAMBDA r :
        IF r.err # "ok" THEN Res(r.err, None)
        ELSE IF Len(r.val) # 1 THEN Res("ShapeMismatch", None)
        ELSE rgba_setter(None, ArrVal(
                IF alpha = None THEN r.val
                ELSE [i \in 1..Len(r.val) |-> [r.val[i] EXCEPT ![4] = alpha[1]]])))


-----------------------------------------------------------------------------
(* Inputs of the model *)

\* Arrays of 1..MaxLen rows drawn from a set of rows of one width: a first
\* row, and the rows after it all alike.
Arrays(rowset) ==
    {[i \in 1..n |-> IF i = 1 THEN a ELSE b] : a \in rowset, b \in rowset, n \in 1..MaxLen}

\* Arrays of 1..MaxLen rows, all alike.
ConstArrays(rowset) == {[i \in 1..n |-> a] : a \in rowset, n \in 1..MaxLen}

ThreeHalves == Rat(3, 2)
Orange == <<One, Half, Zero>>

\* Rows of floats: in range and out of range, of 3, 4 and 2 columns.
Rows3 == {Orange, <<ThreeHalves, Half, Zero>>}
Rows4 == {<<One, Half, Zero, Half>>, <<One, Half, Zero, ThreeHalves>>}
Rows2 == {<<One, Zero>>}
FloatArrays == Arrays(Rows3) \cup Arrays(Rows4) \cup Arrays(Rows2)

\* Rows of 8-bit integers, with one value past 255.
IntRows4 == {<<255, 255, 255, 255>>, <<256, 0, 0, 255>>}
IntRows3 == {<<255, 255, 255>>, <<0, 0, 256>>}

\* Hex strings: 6 and 8 digits, 3 digits, and 6 digits without the '#'.
HexStrs ==
    {<<"#", "f", "f", "f", "f", "f", "f">>,
     <<"#", "0", "0", "0", "0", "0", "0", "f", "f">>,
     <<"#", "f", "f", "f">>,
     <<"0", "0", "0", "0", "0", "0">>}

\* HSV rows: orange, a saturation of 2, and a row of four columns.
HsvRows3 == {<<Q(30), One, One>>, <<Zero, Q(2), One>>}
HsvRows4 == {<<Q(30), One, One, Half>>}
LabRows4 == {<<Q(50), Q(0), Q(0), Half>>}

\* Scalars for alpha, value and an alpha override; steps for lighter / darker.
Alphas == {Half, ThreeHalves}
Values == {Zero, Half, ThreeHalves}

Black == <<"b", "l", "a", "c", "k">>

-----------------------------------------------------------------------------
(* The container under operation *)

\* The record of an operation: its name, the shape of its input (columns,
\* or digits of the first hex string), the input where a property reads it,
\* and the outcome.
Did(op, kind, arg, r) == [err |-> r.err, op |-> op, kind |-> kind, arg |-> arg]

\* What the operations on the container leave alone.
elsewhere == <<mem, orig, sub, ilast, str, sres, cmap, mres>>

SetRgba ==
    \E val \in FloatArrays :
        \E r \in {rgba_setter(rgba, ArrVal(val))} :
            /\ rgba' = r.buf
            /\ last' = Did("rgba", NCols(val), <<>>, r)
            /\ UNCHANGED elsewhere

SetRgb ==
    \E val \in Arrays(Rows3) \cup Arrays(Rows2) :
        \E r \in {rgb_setter(rgba, ArrVal(val))} :
            /\ rgba' = r.buf
            /\ last' = Did("rgb", NCols(val), <<>>, r)
            /\ UNCHANGED elsewhere

SetRGBA ==
    \E val \in ConstArrays(IntRows4) :
        \E r \in {RGBA_setter(rgba, val)} :
            /\ rgba' = r.buf
            /\ last' = Did("RGBA", NCols(val), <<>>, r)
            /\ UNCHANGED elsewhere

SetRGB ==
    \E val \in ConstArrays(IntRows3) :
        \E r \in {RGB_setter(rgba, val)} :
            /\ rgba' = r.buf
            /\ last' = Did("RGB", NCols(val), <<>>, r)
            /\ UNCHANGED elsewhere

SetAlpha ==
    \E val \in ConstArrays(Alphas) :
        \E r \in {alpha_setter(rgba, val)} :
            /\ rgba' = r.buf
            /\ last' = Did("alpha", 1, <<>>, r)
            /\ UNCHANGED elsewhere

\* The digits of a hex string, the '#' left out.
NDigits(h) == Len(h) - (IF h # <<>> /\ h[1] = "#" THEN 1 ELSE 0)

SetHex ==
    \E val \in Arrays(HexStrs) :
        \E r \in {hex_setter(rgba, val)} :
            /\ rgba' = r.buf
            /\ last' = Did("hex", {NDigits(val[i]) : i \in 1..Len(val)}, <<>>, r)
            /\ UNCHANGED elsewhere

SetHsv ==
    \E val \in ConstArrays(HsvRows3) \cup ConstArrays(HsvRows4) :
        \E r \in {hsv_setter(rgba, val)} :
            /\ rgba' = r.buf
            /\ last' = Did("hsv", NCols(val), <<>>, r)
            /\ UNCHANGED elsewhere

SetLab ==
    \E val \in ConstArrays(LabRows) \cup ConstArrays(LabRows4) :
        \E r \in {lab_setter(rgba, val)} :
            /\ rgba' = r.buf
            /\ last' = Did("lab", NCols(val), <<>>, r)
            /\ UNCHANGED elsewhere

SetValue ==
    \E val \in Arrays(Values) :
        \E r \in {value_setter(rgba, val)} :
            /\ rgba' = r.buf
            /\ last' = Did("value", 1, val, r)
            /\ UNCHANGED elsewhere

\* c = c.lighter(dv, copy): with copy the call works on self.copy() and
\* returns it; the program goes on with the container returned.
Lighter ==
    \E dv \in {Half}, copy \in BOOLEAN :
        \E r \in {lighter(rgba, dv)} :
            /\ rgba' = r.buf
            /\ last' = Did("lighter", 1, <<>>, r)
            /\ UNCHANGED elsewhere

Darker ==
    \E dv \in {Half}, copy \in BOOLEAN :
        \E r \in {darker(rgba, dv)} :
            /\ rgba' = r.buf
            /\ last' = Did("darker", 1, <<>>, r)
            /\ UNCHANGED elsewhere

\* c[item] = value, item the slice [:], the first row, or a row past the end.
SetItem ==
    \E item \in {0, 1, MaxLen + 1}, value \in ConstArrays(Rows4) \cup ConstArrays(Rows3) :
        \E r \in {__setitem__(rgba, item, value)} :
            /\ rgba' = r.buf
            /\ last' = Did("setitem", NCols(value), <<>>, r)
            /\ UNCHANGED elsewhere

\* The containers the program starts with: ColorArray() and the containers
\* built from the arrays of floats, with and without an alpha override.
Constructed ==
    {ColorArray_init(StrVal(Black), None, FALSE)} \cup
    {ColorArray_init(ArrVal(color), alpha, FALSE) :
        color \in FloatArrays, alpha \in {None, <<Half>>}}

Init ==
    /\ \E r \in Constructed :
        /\ r.err = "ok"
        /\ rgba = r.buf
        /\ last = Did("init", 4, <<>>, r)
    /\ mem = <<>> /\ orig = <<>> /\ sub = <<>> /\ ilast = <<>>
    /\ str = <<>> /\ sres = <<>>
    /\ cmap = <<>> /\ mres = <<>>

Next ==
    \/ SetRgba
    \/ SetRgb
    \/ SetRGBA
    \/ SetRGB
    \/ SetAlpha
    \/ SetHex
    \/ SetHsv
    \/ SetLab
    \/ SetValue
    \/ Lighter
    \/ Darker
    \/ SetItem

Spec == Init /\ [][Next]_vars

-----------------------------------------------------------------------------
(* Construction on its own: c = ColorArray(color, alpha, clip) and          *)
(* c = Color(color, alpha, clip) over every input of the model.  rgba is    *)
(* the buffer of the container built, None when the constructor raised.     *)

Overrides == {None} \cup {<<a>> : a \in Alphas}

ConstructArray ==
    \E color \in FloatArrays, alpha \in Overrides, clip \in BOOLEAN :
        \E r \in {ColorArray_init(ArrVal(color), alpha, clip)} :
            /\ rgba' = r.buf
            /\ last' = Did("ColorArray", NCols(color), [color |-> color, clip |-> clip, alpha |-> alpha], r)
            /\ UNCHANGED elsewhere

ConstructColor ==
    \E color \in FloatArrays, alpha \in Overrides, clip \in BOOLEAN :
        \E r \in {Color_init(ArrVal(color), alpha, clip)} :
            /\ rgba' = r.buf
            /\ last' = Did("Color", NCols(color), [color |-> color, clip |-> clip, alpha |-> alpha], r)
            /\ UNCHANGED elsewhere

InitConstruct ==
    /\ rgba = None
    /\ last = [err |-> "ok", op |-> "none", kind |-> 0, arg |-> <<>>]
    /\ mem = <<>> /\ orig = <<>> /\ sub = <<>> /\ ilast = <<>>
    /\ str = <<>> /\ sres = <<>>
    /\ cmap = <<>> /\ mres = <<>>

NextConstruct == ConstructArray \/ ConstructColor

SpecConstruct == InitConstruct /\ [][NextConstruct]_vars

-----------------------------------------------------------------------------
(* Properties of the container *)

Setters == {"rgba", "rgb", "RGBA", "RGB", "alpha", "hex", "hsv", "lab", "value"}

AlphaOf(buf) == [i \in 1..Len(buf) |-> buf[i][4]]
ColourOf(buf) == [i \in 1..Len(buf) |-> Take(buf[i], 3)]

\* C1: after any sequence of successful operations on a ColorArray every
\* channel of every record of its RGBA buffer lies in [0, 1].
C1_ChannelsInUnit == \A i \in 1..Len(rgba) : \A j \in 1..4 : InUnit(rgba[i][j])

\* C2: whenever a view setter raises, the container's RGBA buffer after the
\* call equals the buffer before the call.
C2_FailedSetterKeepsBuffer ==
    [][(last'.op \in Setters /\ last'.err # "ok") => rgba' = rgba]_vars

\* A setter has raised OutOfRange on a container of two records.
C2_Witness == last.op \in Setters /\ last.err = "OutOfRange" /\ Len(rgba) = 2

\* The successful writes through a colour-only view.
ColourOnly(l) ==
    /\ l.err = "ok"
    /\ \/ l.op \in {"rgb", "hsv", "lab", "RGB"} /\ l.kind = 3
       \/ l.op = "hex" /\ l.kind = {6}
       \/ l.op = "value"

\* C3: a successful write through a colour-only view leaves the alpha of
\* every record unchanged, and a successful write through alpha leaves the
\* R, G and B of every record unchanged.
C3_ViewsKeepOtherColumns ==
    [][/\ ColourOnly(last') => AlphaOf(rgba') = AlphaOf(rgba)
       /\ (last'.op = "alpha" /\ last'.err = "ok") => ColourOf(rgba') = ColourOf(rgba)]_vars

\* C4: setting value to v in [0, 1] keeps the H and the S of every record's
\* hsv view and makes its V equal to v.
C4_ValueKeepsHueSaturation ==
    [][(last'.op = "value" /\ last'.err = "ok" /\ \A i \in 1..Len(last'.arg) : InUnit(last'.arg[i]))
        => \A i \in 1..Len(rgba) :
              /\ _hsv(rgba')[i][1] = _hsv(rgba)[i][1]
              /\ _hsv(rgba')[i][2] = _hsv(rgba)[i][2]
              /\ _hsv(rgba')[i][3] = BRow(last'.arg, i)]_vars

\* The channels a construction is given: those of color, and the override.
GivenOutside(arg) == AnyOutside(arg.color) \/ (arg.alpha # None /\ ~InUnit(arg.alpha[1]))

\* The buffer a clamping construction is to store.
Clamped(arg) ==
    [i \in 1..Len(arg.color) |->
        [j \in 1..4 |->
            Clip01(IF j = 4 /\ arg.alpha # None THEN arg.alpha[1]
                   ELSE IF j > Len(arg.color[i]) THEN One
                   ELSE arg.color[i][j])]]

\* C7: a construction without clip fails with OutOfRange exactly when some
\* channel given, the alpha override included, is outside [0, 1]; one with
\* clip never fails with OutOfRange and stores each channel clamped.  (Stated
\* of the inputs of three or four columns.)
C7_ClipNeverOutOfRange ==
    (last.op \in {"ColorArray", "Color"} /\ last.kind \in {3, 4}) =>
        /\ ~last.arg.clip => (last.err = "OutOfRange" <=> GivenOutside(last.arg))
        /\ last.arg.clip => /\ last.err # "OutOfRange"
                            /\ last.err = "ok" => rgba = Clamped(last.arg)

-----------------------------------------------------------------------------
(* Strings: a name or a hex string s in hand, given to _string_to_rgb(s),   *)
(* to _hex_to_rgba(s) and to ColorArray(s).                                 *)

MaxDigits == 9

Chars(c, n) == [i \in 1..n |-> c]

\* Names in several letter cases, a name the lookup does not hold, and ''.
Names ==
    {<<"r", "e", "d">>, <<"R", "e", "d">>, <<"R", "E", "D">>, <<"r">>, <<"R">>,
     <<"b", "l", "u", "e">>, <<"B", "l", "u", "e">>, <<"b", "l", "a", "c", "k">>,
     <<"r", "a", "d">>, <<>>}

\* Runs of 0..MaxDigits equal characters (hex digits, and 'g'), with and
\* without a leading '#'.
HexLike ==
    {pre \o Chars(c, n) : pre \in {<<>>, <<"#">>}, c \in {"f", "0", "A", "g"}, n \in 0..MaxDigits}

Strings == Names \cup HexLike

NoResult == [err |-> "ok", val |-> <<>>, op |-> "none"]

elsewhereStr == <<rgba, last, mem, orig, sub, ilast, cmap, mres>>

PickString ==
    /\ str' \in Strings
    /\ sres' = NoResult
    /\ UNCHANGED elsewhereStr

StringToRgb ==
    \E r \in {_string_to_rgb(str)} :
        /\ sres' = [err |-> r.err, val |-> r.val, op |-> "_string_to_rgb"]
        /\ UNCHANGED str
        /\ UNCHANGED elsewhereStr

HexToRgba ==
    \E r \in {_hex_to_rgba(<<str>>)} :
        /\ sres' = [err |-> r.err, val |-> r.val, op |-> "_hex_to_rgba"]
        /\ UNCHANGED str
        /\ UNCHANGED elsewhereStr

ConstructFromString ==
    \E r \in {ColorArray_init(StrVal(str), None, FALSE)} :
        /\ sres' = [err |-> r.err, val |-> r.buf, op |-> "ColorArray"]
        /\ UNCHANGED str
        /\ UNCHANGED elsewhereStr

InitString ==
    /\ str \in Strings
    /\ sres = NoResult
    /\ rgba = <<>> /\ last = <<>>
    /\ mem = <<>> /\ orig = <<>> /\ sub = <<>> /\ ilast = <<>>
    /\ cmap = <<>> /\ mres = <<>>

NextString ==
    \/ PickString
    \/ StringToRgb
    \/ HexToRgba
    \/ ConstructFromString

SpecString == InitString /\ [][NextString]_vars

\* The strings that are not hex colours by their first character.
IsName(s) == s = <<>> \/ s[1] # "#"

DigitsOf(s) == IF s # <<>> /\ s[1] = "#" THEN Tail(s) ELSE s

\* The digits after normalization: 3 or 4 digits duplicated.
Normalized(s) == IF Len(DigitsOf(s)) \in {3, 4} THEN DupChars(DigitsOf(s)) ELSE DigitsOf(s)

\* The channels of a result: the array of _string_to_rgb, the first row of
\* the array of _hex_to_rgba.
ChannelsOf(res) == IF res.op = "_hex_to_rgba" THEN res.val[1] ELSE res.val

\* C6: a string of hex digits, with or without '#', parses to the channels of
\* its digits (3 or 4 digits duplicated) when it has 6 or 8 digits after
\* normalization, and fails with MalformedHex otherwise.
C6_HexDigitCounts ==
    (sres.op \in {"_hex_to_rgba", "_string_to_rgb"} /\ IsHex(DigitsOf(str))) =>
        IF Len(Normalized(str)) \in {6, 8}
        THEN /\ sres.err = "ok"
             /\ Take(ChannelsOf(sres), Len(Normalized(str)) \div 2) = HexPairs(Normalized(str))
        ELSE sres.err = "MalformedHex"

-----------------------------------------------------------------------------
(* Indexing: d = c[item], then mutations of c and of d.  mem is the storage *)
(* allocated (address -> array of rows); orig and sub are the _rgba of c    *)
(* and of d: a base address and the rows of the base the array covers.      *)

Ref(base, rows) == [rows |-> rows, base |-> base]

\* The contents of the array a reference designates.
Deref(m, ref) == [i \in 1..Len(ref.rows) |-> m[ref.base][ref.rows[i]]]

\* Assignment of buf through a reference: the rows it covers, in its base.
Store(m, ref, buf) ==
    [m EXCEPT ![ref.base] =
        [k \in 1..Len(@) |->
            IF \E i \in 1..Len(ref.rows) : ref.rows[i] = k
            THEN buf[CHOOSE i \in 1..Len(ref.rows) : ref.rows[i] = k]
            ELSE @[k]]]

\* self._rgba[item]: a view of the same base.
View(ref, item) == IF item = 0 THEN ref ELSE Ref(ref.base, <<ref.rows[item]>>)

\* An address no live array has.
Fresh(live) == CHOOSE a \in 1..(Cardinality(live) + 1) : a \notin live

\* The storage that is still referenced.
Gc(m, live) == [a \in live |-> m[a]]

\* A container that wraps the view itself instead of a converted copy.
__getitem___view(m, self, item) ==
    IF item > Len(self.rows) THEN [mem |-> m, err |-> "IndexError", ref |-> None]
    ELSE With(ColorArray_init(ArrVal(Deref(m, View(self, item))), None, FALSE), LAMBDA r :
            IF r.err # "ok" THEN [mem |-> m, err |-> r.err, ref |-> None]
            ELSE [mem |-> Gc(m, {self.base}), err |-> "ok", ref |-> View(self, item)])

\* ColorArray.__getitem__(item): ColorArray(self._rgba[item]), whose buffer
\* is the array astype() allocates in _user_to_rgba.
__getitem__(m, self, item) ==
    IF item > Len(self.rows) THEN [mem |-> m, err |-> "IndexError", ref |-> None]
    ELSE With(ColorArray_init(ArrVal(Deref(m, View(self, item))), None, FALSE), LAMBDA r :
            IF r.err # "ok" THEN [mem |-> m, err |-> r.err, ref |-> None]
            ELSE [mem |-> (Fresh({self.base}) :> r.buf) @@ Gc(m, {self.base}),
                  err |-> "ok",
                  ref |-> Ref(Fresh({self.base}), [i \in 1..Len(r.buf) |-> i])])

IndexRows == {<<One, Half, Zero, One>>, <<Zero, Zero, Zero, Half>>}

Mutations == {"rgba", "alpha", "setitem"}

elsewhereIndex == <<rgba, last, str, sres, cmap, mres>>

\* The container an operation is applied to: c, or d once it exists.
Targets == {"orig"} \cup (IF sub = None THEN {} ELSE {"sub"})
RefOf(on) == IF on = "orig" THEN orig ELSE sub

GetItem ==
    \E item \in 0..(MaxLen + 1) :
        \E g \in {__getitem__(mem, orig, item)} :
            /\ mem' = g.mem
            /\ sub' = IF g.err = "ok" THEN g.ref ELSE sub
            /\ ilast' = [err |-> g.err, op |-> "getitem", on |-> "orig"]
            /\ UNCHANGED orig
            /\ UNCHANGED elsewhereIndex

MutateRgba ==
    \E on \in Targets, row \in IndexRows :
        \E r \in {rgba_setter(Deref(mem, RefOf(on)), ArrVal(<<row>>))} :
            /\ mem' = Store(mem, RefOf(on), r.buf)
            /\ ilast' = [err |-> r.err, op |-> "rgba", on |-> on]
            /\ UNCHANGED <<orig, sub>>
            /\ UNCHANGED elsewhereIndex

MutateAlpha ==
    \E on \in Targets, a \in {Zero, Half} :
        \E r \in {alpha_setter(Deref(mem, RefOf(on)), <<a>>)} :
            /\ mem' = Store(mem, RefOf(on), r.buf)
            /\ ilast' = [err |-> r.err, op |-> "alpha", on |-> on]
            /\ UNCHANGED <<orig, sub>>
            /\ UNCHANGED elsewhereIndex

MutateItem ==
    \E on \in Targets, item \in 0..MaxLen, row \in IndexRows :
        \E r \in {__setitem__(Deref(mem, RefOf(on)), item, <<row>>)} :
            /\ mem' = Store(mem, RefOf(on), r.buf)
            /\ ilast' = [err |-> r.err, op |-> "setitem", on |-> on]
            /\ UNCHANGED <<orig, sub>>
            /\ UNCHANGED elsewhereIndex

InitIndex ==
    /\ \E buf \in Arrays(IndexRows) :
        /\ mem = (1 :> buf)
        /\ orig = Ref(1, [i \in 1..Len(buf) |-> i])
    /\ sub = None
    /\ ilast = [err |-> "ok", op |-> "none", on |-> "orig"]
    /\ rgba = <<>> /\ last = <<>>
    /\ str = <<>> /\ sres = <<>>
    /\ cmap = <<>> /\ mres = <<>>

NextIndex ==
    \/ GetItem
    \/ MutateRgba
    \/ MutateAlpha
    \/ MutateItem

SpecIndex == InitIndex /\ [][NextIndex]_vars

\* C8: once d = c[item] exists, a mutation of d leaves the buffer of c as it
\* was, and a mutation of c leaves the buffer of d as it was.
C8_IndexingCopies ==
    [][(sub # None /\ ilast'.op \in Mutations) =>
          /\ ilast'.on = "sub" => Deref(mem', orig) = Deref(mem, orig)
          /\ ilast'.on = "orig" => Deref(mem', sub) = Deref(mem, sub)]_vars

\* d was taken as the slice c[:] and a mutation of one of them has succeeded,
\* after which the two buffers differ.
C8_Witness ==
    /\ sub # None
    /\ Len(sub.rows) = MaxLen
    /\ ilast.op \in Mutations
    /\ ilast.err = "ok"
    /\ Deref(mem, sub) # Deref(mem, orig)

-----------------------------------------------------------------------------
(* Colormaps: the numeric interpolation and the generated GLSL function.    *)
(* Indices into colors and controls are 0-based as in the source; element   *)
(* k of an array a is a[k + 1].                                             *)

ClipInt(v, lo, hi) == IF v < lo THEN lo ELSE IF v > hi THEN hi ELSE v

\* The binary search of np.searchsorted, side 'left', between the 0-based
\* indices lo and hi.
RECURSIVE BinSearch(_, _, _, _)
BinSearch(a, v, lo, hi) ==
    IF lo >= hi THEN lo
    ELSE IF RLt(a[lo + ((hi - lo) \div 2) + 1], v)
         THEN BinSearch(a, v, lo + ((hi - lo) \div 2) + 1, hi)
         ELSE BinSearch(a, v, lo, lo + ((hi - lo) \div 2))

\* np.searchsorted(a, v), side 'left'.
searchsorted(a, v) == BinSearch(a, v, 0, Len(a))

\* A lookup that leaves out the step back to the left boundary of the bin.
_find_controls_right(x, controls) ==
    ClipInt(searchsorted(controls, x), 0, Len(controls) - 1)

_find_controls(x, controls) ==
    ClipInt(searchsorted(controls, x) - 1, 0, Len(controls) - 1)

_mix_simple(a, b, x) ==
    With(Clip01(x), LAMBDA c :
        [j \in 1..Len(a) |-> RAdd(RMul(RSub(One, c), a[j]), RMul(c, b[j]))])

_interpolate_multi(colors, x, controls) ==
    With(ClipInt(_find_controls(x, controls), 0, Len(colors) - 2), LAMBDA x_step :
    With(RSub(controls[x_step + 2], controls[x_step + 1]), LAMBDA len :
        [a |-> colors[x_step + 1],
         b |-> colors[x_step + 2],
         x_rel |-> Clip01(RDiv(RSub(x, controls[x_step + 1]),
                               IF len = Zero THEN One ELSE len))]))

mix(colors, x, controls) ==
    With(_interpolate_multi(colors, x, controls), LAMBDA r : _mix_simple(r.a, r.b, r.x_rel))

step(colors, x, controls) ==
    IF controls[1] # Zero \/ controls[Len(controls)] # One \/ Len(controls) < 3
    THEN Raise("AssertionError")
    ELSE Ok(colors[_find_controls(x, controls) + 1])

\* The decimals of '%.6f' (control points) and of '%.3f' (colours).
ControlDecimals == 6
ColorDecimals == 3

RECURSIVE Pow10(_)
Pow10(k) == IF k = 0 THEN 1 ELSE 10 * Pow10(k - 1)

\* The nearest integer to a rational q >= 0, ties to even.
Round(q) ==
    IF 2 * (q[1] % q[2]) > q[2] THEN (q[1] \div q[2]) + 1
    ELSE IF 2 * (q[1] % q[2]) < q[2] THEN q[1] \div q[2]
    ELSE IF (q[1] \div q[2]) % 2 = 0 THEN q[1] \div q[2]
    ELSE (q[1] \div q[2]) + 1

\* The number that '%.<k>f' % x prints.
Fmt(x, k) == Rat(Round(RMul(x, Q(Pow10(k)))), Pow10(k))

\* The branches of the generated function: the guard of branch i, and what
\* the branch returns.
Guards(controls) ==
    [k \in 1..(Len(controls) - 1) |->
        IF k = Len(controls) - 1 THEN <<"else">>
        ELSE <<"lt", Fmt(controls[k + 1], ControlDecimals)>>]

\* A generator that emits the single mix(...) whatever the number of control
\* points.
_glsl_mix_flat(controls) ==
    IF controls[1] # Zero \/ controls[Len(controls)] # One \/ Len(controls) < 2
    THEN Raise("AssertionError")
    ELSE Ok(<<[guard |-> <<"none">>, ret |-> <<"mix", 0, 1>>]>>)

\* _glsl_mix(controls): with two control points a single return, under no
\* guard; otherwise the cascade.
_glsl_mix(controls) ==
    IF controls[1] # Zero \/ controls[Len(controls)] # One \/ Len(controls) < 2
    THEN Raise("AssertionError")
    ELSE IF Len(controls) = 2
    THEN Ok(<<[guard |-> <<"none">>, ret |-> <<"mix", 0, 1>>]>>)
    ELSE Ok([k \in 1..(Len(controls) - 1) |->
                [guard |-> Guards(controls)[k], ret |-> <<"mix", k - 1, k>>]])

_glsl_step(controls) ==
    IF controls[1] # Zero \/ controls[Len(controls)] # One \/ Len(controls) < 3
    THEN Raise("AssertionError")
    ELSE Ok([k \in 1..(Len(controls) - 1) |->
                [guard |-> Guards(controls)[k], ret |-> <<"color", k - 1>>]])

\* 'vec4(%.3f, %.3f, %.3f, %.3f)' % tuple(color)
Vec4(color) == [j \in 1..4 |-> Fmt(color[j], ColorDecimals)]

\* The decimal digits of p >= 0: '%d' % p.
RECURSIVE Digits10(_)
Digits10(p) == IF p < 10 THEN <<p>> ELSE Append(Digits10(p \div 10), p % 10)

IsPrefix(a, b) == Len(a) <= Len(b) /\ SubSeq(b, 1, Len(a)) = a

\* What the loop of str.replace calls makes of the placeholder '$color_<p>':
\* the first i in range(len(colors)) whose '$color_<i>' is a prefix of it
\* replaces that prefix by the vec4 of colour i.  The result is the text of
\* that vec4 (its four numbers), followed by the digits of p left over if
\* there are any; the placeholder stays when no i matches.
Substitute(p, colors) ==
    With({i \in 0..(Len(colors) - 1) : IsPrefix(Digits10(i), Digits10(p))}, LAMBDA hits :
        IF hits = {} THEN <<"$color_", p>>
        ELSE With(CHOOSE i \in hits : \A h \in hits : i <= h, LAMBDA i :
                Vec4(colors[i + 1])
                    \o SubSeq(Digits10(p), Len(Digits10(i)) + 1, Len(Digits10(p)))))

_process_glsl_template(template, colors) ==
    [k \in 1..Len(template) |->
        [template[k] EXCEPT !.ret =
            [j \in 1..Len(@) |-> IF j = 1 THEN @[1] ELSE Substitute(@[j], colors)]]]

\* The branch of the generated function that a value t takes (0-based).
Branch(glsl, t) ==
    (CHOOSE k \in 1..Len(glsl) :
        /\ glsl[k].guard[1] \in {"none", "else"} \/ RLt(t, glsl[k].guard[2])
        /\ \A h \in 1..(k - 1) : ~RLt(t, glsl[h].guard[2])) - 1

\* The value of the generated function 'vec4 colormap(float t)'; GLSL's
\* mix(x, y, a) is x * (1 - a) + y * a.
colormap(glsl, t) ==
    With(glsl[Branch(glsl, t) + 1].ret, LAMBDA ret :
        IF ret[1] = "mix"
        THEN [j \in 1..4 |-> RAdd(RMul(ret[2][j], RSub(One, t)), RMul(ret[3][j], t))]
        ELSE ret[2])

_default_controls(colors) ==
    [i \in 1..Len(colors) |-> IF Len(colors) = 1 THEN Zero ELSE Rat(i - 1, Len(colors) - 1)]

LinearGradient_init(colors, controls) ==
    With(IF controls = None THEN _default_controls(colors) ELSE controls, LAMBDA c :
    With(_glsl_mix(c), LAMBDA g :
        IF g.err # "ok" THEN g
        ELSE Ok([kind |-> "LinearGradient", controls |-> c, colors |-> colors,
                 glsl_map |-> _process_glsl_template(g.val, colors)])))

DiscreteColormap_init(colors, controls) ==
    With(IF controls = None THEN _default_controls(colors) ELSE controls, LAMBDA c :
    With(_glsl_step(c), LAMBDA g :
        IF g.err # "ok" THEN g
        ELSE Ok([kind |-> "DiscreteColormap", controls |-> c, colors |-> colors,
                 glsl_map |-> _process_glsl_template(g.val, colors)])))

\* LinearGradient.map(x) and DiscreteColormap.map(x), x one value.
Colormap_map(cm, x) ==
    IF cm.kind = "LinearGradient" THEN Ok(mix(cm.colors, x, cm.controls))
    ELSE step(cm.colors, x, cm.controls)

-----------------------------------------------------------------------------
(* A colormap under query: cmap is the colormap built last, mres the last   *)
(* operation and what it returned.                                          *)

MaxColors == 4

Palette == {<<One, Zero, Zero, One>>, <<Zero, Zero, One, Half>>}

ColorSeqs == UNION {[1..n -> Palette] : n \in 2..MaxColors}

\* The control points strictly inside (0, 1) that the model uses.
Interior == {Rat(1, 4), Rat(1, 2), Rat(3, 4)}

\* Strictly increasing control points from 0 to 1, n of them; None asks for
\* the default ones.
ControlSeqs(n) ==
    {None} \cup
    {c \in [1..n -> Interior \cup {Zero, One}] :
        /\ c[1] = Zero
        /\ c[n] = One
        /\ \A i \in 1..(n - 1) : RLt(c[i], c[i + 1])}

Queries == {Rat(k, 8) : k \in 0..8}

elsewhereMap == <<rgba, last, mem, orig, sub, ilast, str, sres>>

Built(op, r) == [err |-> r.err, color |-> <<>>, op |-> op, t |-> <<>>, bin |-> <<>>]

NewLinearGradient ==
    \E colors \in ColorSeqs :
        \E controls \in ControlSeqs(Len(colors)) :
            \E r \in {LinearGradient_init(colors, controls)} :
                /\ cmap' = IF r.err = "ok" THEN r.val ELSE cmap
                /\ mres' = Built("LinearGradient", r)
                /\ UNCHANGED elsewhereMap

NewDiscreteColormap ==
    \E colors \in ColorSeqs :
        \E controls \in ControlSeqs(Len(colors)) :
            \E r \in {DiscreteColormap_init(colors, controls)} :
                /\ cmap' = IF r.err = "ok" THEN r.val ELSE cmap
                /\ mres' = Built("DiscreteColormap", r)
                /\ UNCHANGED elsewhereMap

\* cmap.map(t)
Map ==
    /\ cmap # None
    /\ \E t \in Queries :
        \E r \in {Colormap_map(cmap, t)} :
            /\ mres' = [err |-> r.err, color |-> r.val, op |-> "map", t |-> t, bin |-> <<>>]
            /\ UNCHANGED cmap
            /\ UNCHANGED elsewhereMap

\* The generated function evaluated at t.
Shader ==
    /\ cmap # None
    /\ \E t \in Queries :
        /\ mres' = [err |-> "ok",
                    color |-> colormap(cmap.glsl_map, t),
                    op |-> "colormap", t |-> t,
                    bin |-> Branch(cmap.glsl_map, t)]
        /\ UNCHANGED cmap
        /\ UNCHANGED elsewhereMap

InitMap ==
    /\ cmap = None
    /\ mres = [err |-> "ok", color |-> <<>>, op |-> "none", t |-> <<>>, bin |-> <<>>]
    /\ rgba = <<>> /\ last = <<>>
    /\ mem = <<>> /\ orig = <<>> /\ sub = <<>> /\ ilast = <<>>
    /\ str = <<>> /\ sres = <<>>

NextMap ==
    \/ NewLinearGradient
    \/ NewDiscreteColormap
    \/ Map
    \/ Shader

SpecMap == InitMap /\ [][NextMap]_vars

\* The bins of a colormap that hold t strictly inside (0-based).
BinsAround(cm, t) ==
    {i \in 0..(Len(cm.controls) - 2) :
        RLt(cm.controls[i + 1], t) /\ RLt(t, cm.controls[i + 2])}

\* C9: a step map queried strictly inside bin i returns colors[i], channel
\* for channel.
C9_StepNeverBlends ==
    (mres.op = "map" /\ cmap.kind = "DiscreteColormap") =>
        \A i \in BinsAround(cmap, mres.t) :
            mres.err = "ok" /\ mres.color = cmap.colors[i + 1]

\* A step map has been queried strictly inside a bin past the first, whose
\* colour differs from the colours of the bins next to it.
C9_Witness ==
    /\ mres.op = "map"
    /\ cmap.kind = "DiscreteColormap"
    /\ \E i \in BinsAround(cmap, mres.t) :
        /\ i >= 1
        /\ cmap.colors[i + 1] # cmap.colors[i]
        /\ cmap.colors[i + 1] # cmap.colors[i + 2]

\* The bin the numeric path selects for t (0-based).
x_step(cm, t) ==
    IF cm.kind = "LinearGradient"
    THEN ClipInt(_find_controls(t, cm.controls), 0, Len(cm.colors) - 2)
    ELSE _find_controls(t, cm.controls)

\* C10: for every t in [0, 1] the branch the generated function takes is the
\* bin the numeric path selects, and the colour it computes is the colour
\* map(t) returns.
C10_ShaderAgreesWithMap ==
    mres.op = "colormap" =>
        /\ mres.bin = x_step(cmap, mres.t)
        /\ mres.color = Colormap_map(cmap, mres.t).val

\* C11: the function generated for a mix map of n control points is, for
\* n = 2, one mix(color_0, color_1, t) under no guard; for n >= 3, n - 1
\* branches, branch i returning mix(color_i, color_i+1, t), guarded by
\* 't < cp[i+1]' (cp[i+1] as '%.6f' prints it) in ascending order, the last
\* one an else.
C11_MixCascade ==
    (cmap # None /\ cmap.kind = "LinearGradient") =>
        /\ Len(cmap.glsl_map) = Len(cmap.controls) - 1
        /\ \A k \in 1..Len(cmap.glsl_map) :
            /\ cmap.glsl_map[k].ret =
                   <<"mix", Vec4(cmap.colors[k]), Vec4(cmap.colors[k + 1])>>
            /\ cmap.glsl_map[k].guard =
                   IF Len(cmap.controls) = 2 THEN <<"none">>
                   ELSE IF k = Len(cmap.glsl_map) THEN <<"else">>
                   ELSE <<"lt", Fmt(cmap.controls[k + 1], ControlDecimals)>>
            /\ (k + 2 <= Len(cmap.glsl_map)) =>
                   RLt(cmap.glsl_map[k].guard[2], cmap.glsl_map[k + 1].guard[2])

\* A mix map of four control points has been built: an if, an else if and
\* an else.
C11_Witness ==
    /\ cmap # None
    /\ cmap.kind = "LinearGradient"
    /\ Len(cmap.controls) = 4
    /\ mres.op = "LinearGradient"
    /\ mres.err = "ok"

-----------------------------------------------------------------------------
(* Construction of colormaps from any control points: sequences of 1 to     *)
(* MaxControls values, sorted or not, whatever their ends.  cmap is the     *)
(* colormap built last, mres.t the control points of the last construction. *)

MaxControls == 4

AnyControls == UNION {[1..n -> {Zero, Half, One}] : n \in 1..MaxControls}

\* n control colours, neighbours different.
Stripes(n) ==
    [i \in 1..n |-> IF i % 2 = 1 THEN <<One, Zero, Zero, One>> ELSE <<Zero, Zero, One, Half>>]

BuildLinearGradient ==
    \E controls \in AnyControls :
        \E r \in {LinearGradient_init(Stripes(Len(controls)), controls)} :
            /\ cmap' = IF r.err = "ok" THEN r.val ELSE cmap
            /\ mres' = [Built("LinearGradient", r) EXCEPT !.t = controls]
            /\ UNCHANGED elsewhereMap

BuildDiscreteColormap ==
    \E controls \in AnyControls :
        \E r \in {DiscreteColormap_init(Stripes(Len(controls)), controls)} :
            /\ cmap' = IF r.err = "ok" THEN r.val ELSE cmap
            /\ mres' = [Built("DiscreteColormap", r) EXCEPT !.t = controls]
            /\ UNCHANGED elsewhereMap

\* cmap.map(t) on the colormap built.
Evaluate ==
    /\ cmap # None
    /\ \E t \in Queries :
        \E r \in {Colormap_map(cmap, t)} :
            /\ mres' = [err |-> r.err, color |-> r.val, op |-> "map", t |-> t, bin |-> <<>>]
            /\ UNCHANGED cmap
            /\ UNCHANGED elsewhereMap

NextControls ==
    \/ BuildLinearGradient
    \/ BuildDiscreteColormap
    \/ Evaluate

SpecControls == InitMap /\ [][NextControls]_vars

\* Control points a law accepts: at least min of them, from 0 to 1,
\* strictly increasing.
ValidControls(c, min) ==
    /\ Len(c) >= min
    /\ c[1] = Zero
    /\ c[Len(c)] = One
    /\ \A i \in 1..(Len(c) - 1) : RLt(c[i], c[i + 1])

MinControls(kind) == IF kind = "LinearGradient" THEN 2 ELSE 3

\* C12: a construction from control points that are not valid for the law
\* fails, and the colormap a query evaluates has valid control points.
C12_InvalidControlsRejected ==
    /\ mres.op \in {"LinearGradient", "DiscreteColormap"} =>
           (~ValidControls(mres.t, MinControls(mres.op)) => mres.err # "ok")
    /\ mres.op = "map" => ValidControls(cmap.controls, MinControls(cmap.kind))

-----------------------------------------------------------------------------
(* The catalog: the colormaps of _colormaps, and indexed evaluation         *)
(* cm[item] on a batch of values.  A batch is a sequence of values; the     *)
(* N x 1 column of it is handed to map, which returns N rows or raises.     *)

MaxBatch == 3

\* np.sqrt on the values the model queries: 0, 1/4 and 1.
Sqrt(x) == IF x = Rat(1, 4) THEN Half ELSE x

_smoothstep_simple(a, b, x) ==
    _mix_simple(a, b, RMul(RMul(x, x), RSub(Q(3), RMul(Q(2), x))))

\* Fire.map(t)
Fire_map(colors, t) ==
    Ok([i \in 1..Len(t) |->
        _mix_simple(_mix_simple(colors[1], colors[2], t[i]),
                    _mix_simple(colors[2], colors[3], RMul(t[i], t[i])),
                    t[i])])

\* Grays.map(t) and Ice.map(t), t an array.
Grays_map(t) == Ok([i \in 1..Len(t) |-> <<t[i], t[i], t[i], One>>])
Ice_map(t) == Ok([i \in 1..Len(t) |-> <<t[i], t[i], One, One>>])

\* Hot.map(t): np.hstack of the N x 3 array with np.ones((n, 1)), n the
\* number of control colours; numpy refuses it unless N = n.
Hot_map(colors, t) ==
    IF Len(t) # Len(colors) THEN Raise("ConcatenateError")
    ELSE Ok([i \in 1..Len(t) |->
             Append(_smoothstep_simple(Take(colors[1], 3), Take(colors[2], 3), t[i]), One)])

\* Winter.map(t)
Winter_map(colors, t) ==
    Ok([i \in 1..Len(t) |-> _mix_simple(colors[1], colors[2], Sqrt(t[i]))])

\* A colormap of one of the classes with a map of their own; their GLSL
\* functions are not modelled.
Custom(kind, colors) == [kind |-> kind, controls |-> <<>>, colors |-> colors, glsl_map |-> <<>>]

\* _colormaps: the colormaps by name.
_colormaps ==
    [name \in {"autumn", "blues", "cool", "greens", "reds", "spring", "summer",
               "fire", "grays", "hot", "ice", "winter"} |->
        CASE name = "autumn" ->
                LinearGradient_init(<<<<One, Zero, Zero, One>>, <<One, One, Zero, One>>>>, None).val
          [] name = "blues" ->
                LinearGradient_init(<<<<One, One, One, One>>, <<Zero, Zero, One, One>>>>, None).val
          [] name = "cool" ->
                LinearGradient_init(<<<<Zero, One, One, One>>, <<One, Zero, One, One>>>>, None).val
          [] name = "greens" ->
                LinearGradient_init(<<<<One, One, One, One>>, <<Zero, One, Zero, One>>>>, None).val
          [] name = "reds" ->
                LinearGradient_init(<<<<One, One, One, One>>, <<One, Zero, Zero, One>>>>, None).val
          [] name = "spring" ->
                LinearGradient_init(<<<<One, Zero, One, One>>, <<One, One, Zero, One>>>>, None).val
          [] name = "summer" ->
                LinearGradient_init(<<<<Zero, Half, Rat(2, 5), One>>, <<One, One, Rat(2, 5), One>>>>, None).val
          [] name = "fire" ->
                Custom("Fire", <<<<One, One, One, One>>, <<One, One, Zero, One>>, <<One, Zero, Zero, One>>>>)
          [] name = "grays" -> Custom("Grays", <<>>)
          [] name = "hot" ->
                Custom("Hot", <<<<Zero, Rat(33, 100), Rat(66, 100), One>>,
                                <<Rat(33, 100), Rat(66, 100), One, One>>>>)
          [] name = "ice" -> Custom("Ice", <<>>)
          [] name = "winter" ->
                Custom("Winter", <<<<Zero, Zero, One, One>>, <<Zero, One, Half, One>>>>)]

\* cm.map(t) on a batch t, by the class of cm.
map(cm, t) ==
    CASE cm.kind = "LinearGradient" -> Ok([i \in 1..Len(t) |-> mix(cm.colors, t[i], cm.controls)])
      [] cm.kind = "Fire" -> Fire_map(cm.colors, t)
      [] cm.kind = "Grays" -> Grays_map(t)
      [] cm.kind = "Ice" -> Ice_map(t)
      [] cm.kind = "Hot" -> Hot_map(cm.colors, t)
      [] cm.kind = "Winter" -> Winter_map(cm.colors, t)

\* Colormap.__getitem__(item): ColorArray(self.map(column of item)).
Colormap___getitem__(cm, item) ==
    With(map(cm, item), LAMBDA colors :
        IF colors.err # "ok" THEN Res(colors.err, None)
        ELSE ColorArray_init(ArrVal(colors.val), None, FALSE))

\* Batches of 1..MaxBatch query values in [0, 1].
Batches == UNION {[1..n -> {Zero, Rat(1, 4), One}] : n \in 1..MaxBatch}

\* cm = get_colormap(name)
GetColormap ==
    \E name \in DOMAIN _colormaps :
        /\ cmap' = _colormaps[name]
        /\ mres' = [err |-> "ok", color |-> <<>>, op |-> "get_colormap", t |-> name, bin |-> <<>>]
        /\ UNCHANGED elsewhereMap

\* cm[item]
IndexColormap ==
    /\ cmap # None
    /\ \E item \in Batches :
        \E r \in {Colormap___getitem__(cmap, item)} :
            /\ mres' = [err |-> r.err, color |-> r.buf, op |-> "getitem", t |-> item, bin |-> <<>>]
            /\ UNCHANGED cmap
            /\ UNCHANGED elsewhereMap

NextCatalog ==
    \/ GetColormap
    \/ IndexColormap

SpecCatalog == InitMap /\ [][NextCatalog]_vars

\* C13: indexed evaluation of a catalog colormap on a batch of N values in
\* [0, 1] succeeds and returns a container of N records.
C13_CatalogBatches ==
    mres.op = "getitem" =>
        /\ mres.err = "ok"
        /\ Len(mres.color) = Len(mres.t)

-----------------------------------------------------------------------------
(* The bin of a query: a LinearGradient is built and the bin that mix uses  *)
(* for a value x is read, x inside and outside [0, 1].                      *)

WideQueries == {Rat(k, 8) : k \in -1..9}

\* x_step as _interpolate_multi computes it for the query x.
Locate ==
    /\ cmap # None
    /\ \E x \in WideQueries :
        /\ mres' = [err |-> "ok", color |-> <<>>,
                    op |-> "x_step", t |-> x, bin |-> x_step(cmap, x)]
        /\ UNCHANGED cmap
        /\ UNCHANGED elsewhereMap

NextBin ==
    \/ NewLinearGradient
    \/ Locate

SpecBin == InitMap /\ [][NextBin]_vars

\* The index (0-based) of the rightmost control point <= x; -1 when there
\* is none.
Rightmost(cp, x) == Cardinality({i \in 1..Len(cp) : RLe(cp[i], x)}) - 1

\* C14: the bin used for x is the index of the rightmost control point
\* <= x, clamped to [0, n - 2], and no smaller than the bin of any smaller
\* query.
C14_BinIsRightmost ==
    mres.op = "x_step" =>
        /\ mres.bin = ClipInt(Rightmost(cmap.controls, mres.t), 0, Len(cmap.controls) - 2)
        /\ \A y \in WideQueries : RLe(y, mres.t) => x_step(cmap, y) <= mres.bin

-----------------------------------------------------------------------------
(* Templates of many colours: colormaps of 2 to MaxStops control colours    *)
(* with the default control points, and the text of their glsl_map read     *)
(* branch by branch.                                                        *)

MaxStops == 11

\* n control colours, all different: red rises by 0.05 per colour.
Shades(n, g) == [i \in 1..n |-> <<Rat(i - 1, 20), g, Zero, One>>]

BuildLinearStops ==
    \E n \in 2..MaxStops, g \in {Zero, Half} :
        \E r \in {LinearGradient_init(Shades(n, g), None)} :
            /\ cmap' = IF r.err = "ok" THEN r.val ELSE cmap
            /\ mres' = Built("LinearGradient", r)
            /\ UNCHANGED elsewhereMap

BuildDiscreteStops ==
    \E n \in 2..MaxStops, g \in {Zero, Half} :
        \E r \in {DiscreteColormap_init(Shades(n, g), None)} :
            /\ cmap' = IF r.err = "ok" THEN r.val ELSE cmap
            /\ mres' = Built("DiscreteColormap", r)
            /\ UNCHANGED elsewhereMap

\* What branch k of cmap.glsl_map returns.
ReadGlsl ==
    /\ cmap # None
    /\ \E k \in 1..Len(cmap.glsl_map) :
        /\ mres' = [err |-> "ok", color |-> cmap.glsl_map[k].ret,
                    op |-> "glsl_map", t |-> k, bin |-> k - 1]
        /\ UNCHANGED cmap
        /\ UNCHANGED elsewhereMap

NextTemplate ==
    \/ BuildLinearStops
    \/ BuildDiscreteStops
    \/ ReadGlsl

SpecTemplate == InitMap /\ [][NextTemplate]_vars

\* The template a colormap's glsl_map was made from.
TemplateOf(cm) ==
    IF cm.kind = "LinearGradient" THEN _glsl_mix(cm.controls).val ELSE _glsl_step(cm.controls).val

\* C15: in the text read from glsl_map, every placeholder $color_i of the
\* template stands replaced by the vec4 of control colour i at 3 decimals,
\* and by nothing else.
C15_EveryPlaceholderReplaced ==
    mres.op = "glsl_map" =>
        \A j \in 2..Len(mres.color) :
            mres.color[j] = Vec4(cmap.colors[TemplateOf(cmap)[mres.t].ret[j] + 1])

-----------------------------------------------------------------------------
(* The four conversions on arrays of three and of four columns.             *)

\* Lines 202-214 of _rgb_to_lab on one RGB row.  The powers x ** 2.4 and
\* x ** (1 / 3) are not rational, so the function is tabulated on three
\* greys, each value rounded to the nearest integer:  (0, 0, 0) -> (0, 0, 0);
\* (.5, .5, .5) -> (53.39, 0, 0);  (1, 1, 1) -> (100, 0, 0).
GreyRows == {<<Zero, Zero, Zero>>, <<Half, Half, Half>>, <<One, One, One>>}
RgbToLabRow(rgb) ==
    CASE Take(rgb, 3) = <<Zero, Zero, Zero>> -> <<Q(0), Q(0), Q(0)>>
      [] Take(rgb, 3) = <<Half, Half, Half>> -> <<Q(53), Q(0), Q(0)>>
      [] OTHER -> <<Q(100), Q(0), Q(0)>>

\* _rgb_to_lab(rgbs): with four columns line 218 calls np.atleast1d, a name
\* numpy does not have (the function is atleast_1d).
_rgb_to_lab(rgbs) ==
    IF _check_color_dim(rgbs).err # "ok" THEN _check_color_dim(rgbs)
    ELSE IF _check_color_dim(rgbs).val = 4 THEN Raise("AttributeError")
    ELSE Ok([i \in 1..Len(rgbs) |-> RgbToLabRow(rgbs[i])])

\* The rows of a set, each with an alpha of 1/2 or 1 appended.
WithAlpha(rows) == {Append(r, a) : r \in rows, a \in {Half, One}}

Converted(name, arr, r) ==
    [err |-> r.err, color |-> IF r.err = "ok" THEN r.val ELSE <<>>,
     op |-> name, t |-> arr, bin |-> <<>>]

RGBToHSV ==
    \E arr \in Arrays(GreyRows \cup {Orange}) \cup Arrays(WithAlpha(GreyRows \cup {Orange})) :
        /\ mres' = Converted("_rgb_to_hsv", arr, _rgb_to_hsv(arr))
        /\ UNCHANGED cmap
        /\ UNCHANGED elsewhereMap

HSVToRGB ==
    \E arr \in Arrays(HsvRows3) \cup Arrays(WithAlpha(HsvRows3)) :
        /\ mres' = Converted("_hsv_to_rgb", arr, _hsv_to_rgb(arr))
        /\ UNCHANGED cmap
        /\ UNCHANGED elsewhereMap

RGBToLab ==
    \E arr \in Arrays(GreyRows) \cup Arrays(WithAlpha(GreyRows)) :
        /\ mres' = Converted("_rgb_to_lab", arr, _rgb_to_lab(arr))
        /\ UNCHANGED cmap
        /\ UNCHANGED elsewhereMap

LabToRGB ==
    \E arr \in Arrays(LabRows) \cup Arrays(WithAlpha(LabRows)) :
        /\ mres' = Converted("_lab_to_rgb", arr, _lab_to_rgb(arr))
        /\ UNCHANGED cmap
        /\ UNCHANGED elsewhereMap

NextConvert ==
    \/ RGBToHSV
    \/ HSVToRGB
    \/ RGBToLab
    \/ LabToRGB

SpecConvert == InitMap /\ [][NextConvert]_vars

\* C16: each of the four conversions, given an array of four columns,
\* succeeds and returns as many rows of four columns, the fourth column being
\* the alpha column it was given.
C16_AlphaPassesThrough ==
    (/\ mres.op \in {"_rgb_to_hsv", "_hsv_to_rgb", "_rgb_to_lab", "_lab_to_rgb"}
     /\ NCols(mres.t) = 4)
        => /\ mres.err = "ok"
           /\ Len(mres.color) = Len(mres.t)
           /\ \A i \in 1..Len(mres.t) :
                /\ Len(mres.color[i]) = 4
                /\ mres.color[i][4] = mres.t[i][4]

=============================================================================
